---- MODULE Spec2Model ----
(***************************************************************************)
(* Model of crates/workspace2/src/dock.rs: the Dock panel registry and its *)
(* activation state machine, together with the panel state (TestPanel)     *)
(* that the dock drives through the PanelHandle interface.                 *)
(*                                                                         *)
(* Indices are 0-based as in the Rust source; entry i of the Vec is        *)
(* panel_entries[i + 1] of the TLA+ sequence.                              *)
(***************************************************************************)
EXTENDS Naturals, Integers, Sequences, FiniteSets, TLC

\* ------------------------------------------------------------------ bounds
\* Number of distinct panel views (entity ids) that exist in the application.
NumPanels == 2
\* Largest registry the model lets add_panel build.
MaxEntries == 3
\* The explicit size a caller passes as Some(size) to resize_active_panel.
SomeSize == 100
\* Longest sequence of add_panel calls made on a fresh dock (SpecAddOnly).
MaxAddCalls == 6

\* --------------------------------------------------------------- constants
\* TestPanel::new sets size: 300., and set_size falls back to 300. on None.
DefaultSize == 300

Panels == 1..NumPanels
\* Option<f32>::None as the argument of set_size.
NoSize == 0
SizeArgs == {NoSize, SomeSize}

\* The concrete panel type T of each panel view View<T>.  test::TestPanel is
\* the one implementation in this file; "OtherPanel" stands for any other
\* implementation of the Panel trait, one that has an icon.
PanelType(p) == IF p % 2 = 1 THEN "OtherPanel" ELSE "TestPanel"

\* PanelHandle::persistent_name -> T::persistent_name(): static per type.
PersistentName(p) == PanelType(p)

\* enum PanelEvent
PanelEvents == {"ChangePosition", "ZoomIn", "ZoomOut", "Activate", "Close", "Focus"}

VARIABLES
    panel_entries,       \* Dock.panel_entries: sequence of panel ids
    is_open,             \* Dock.is_open
    active_panel_index,  \* Dock.active_panel_index (0-based)
    active,              \* TestPanel.active of every panel
    zoomed,              \* TestPanel.zoomed of every panel
    size,                \* TestPanel.size of every panel
    panicked,            \* a handler hit todo!() and the thread unwound
    add_calls,           \* the add_panel calls counted by AddPanelCounted
    inserted,            \* for every entry, the number of the add_panel call
                         \* that pushed it (kept by AddPanelStamped and
                         \* RemovePanelStamped)
    element_state,       \* the MenuState kept for one MenuHandle's element
                         \* id, as an Option: <<>> or <<[open, menu]>>
    mouse_listener,      \* the window holds the mouse-down listener that
                         \* the handle's paint registered
    mid_frame            \* the handle is laid out and not yet painted

dock_vars == <<panel_entries, is_open, active_panel_index, active, zoomed, size,
               panicked, add_calls, inserted>>

menu_vars == <<element_state, mouse_listener, mid_frame>>

vars == <<dock_vars, menu_vars>>

\* ------------------------------------------------------------ dock records
\* The operations below are written over a record d holding the Dock fields,
\* the panels' fields, and the log of the calls the operation has made so far
\* on panels (set_active, set_zoomed, set_size) and on the context (notify),
\* in the order the code makes them.

\* The current state as such a record, with an empty log.
Cur ==
    [panel_entries |-> panel_entries, is_open |-> is_open,
     active_panel_index |-> active_panel_index,
     active |-> active, zoomed |-> zoomed, size |-> size,
     panicked |-> FALSE, log |-> <<>>]

\* The part of a record that is program state (no log).
Snapshot(d) ==
    [panel_entries |-> d.panel_entries, is_open |-> d.is_open,
     active_panel_index |-> d.active_panel_index,
     active |-> d.active, zoomed |-> d.zoomed, size |-> d.size]

\* Vec::get(i): the entry at 0-based index i as an Option (<<>> is None).
Get(entries, i) == IF i < Len(entries) THEN <<entries[i + 1]>> ELSE <<>>

\* Iterator::position(|entry| entry.panel.id() == id): the first index, or None.
Position(entries, id) ==
    IF \E i \in 1..Len(entries) : entries[i] = id
    THEN <<(CHOOSE i \in 1..Len(entries) :
                /\ entries[i] = id
                /\ \A j \in 1..(i - 1) : entries[j] # id) - 1>>
    ELSE <<>>

\* Vec::remove(i): drops the entry at 0-based index i, shifting the rest left.
VecRemove(entries, i) ==
    [k \in 1..(Len(entries) - 1) |-> IF k <= i THEN entries[k] ELSE entries[k + 1]]

\* Log entries.
\* (a notification names no panel: its panel field is 0, which is no panel id)
CallNotify == [fn |-> "notify", panel |-> 0, arg |-> FALSE, size |-> NoSize]
CallSetActive(p, b) == [fn |-> "set_active", panel |-> p, arg |-> b, size |-> NoSize]
CallSetZoomed(p, b) == [fn |-> "set_zoomed", panel |-> p, arg |-> b, size |-> NoSize]
CallSetSize(p, s) == [fn |-> "set_size", panel |-> p, arg |-> FALSE, size |-> s]

\* cx.notify()
Notify(d) == [d EXCEPT !.log = Append(@, CallNotify)]

\* PanelHandle::set_active -> TestPanel::set_active
PanelSetActive(d, p, b) ==
    [d EXCEPT !.active[p] = b,
              !.log = Append(@, CallSetActive(p, b))]

\* PanelHandle::set_zoomed -> TestPanel::set_zoomed
PanelSetZoomed(d, p, b) ==
    [d EXCEPT !.zoomed[p] = b,
              !.log = Append(@, CallSetZoomed(p, b))]

\* PanelHandle::set_size -> TestPanel::set_size: size.unwrap_or(300.)
PanelSetSize(d, p, s) ==
    [d EXCEPT !.size[p] = IF s = NoSize THEN DefaultSize ELSE s,
              !.log = Append(@, CallSetSize(p, s))]

\* set_open without the "if open != self.is_open" guard.
set_open_unguarded(d, open) ==
    LET d1 == [d EXCEPT !.is_open = open]
        e  == Get(d1.panel_entries, d1.active_panel_index)
        d2 == IF e # <<>> THEN PanelSetActive(d1, e[1], open) ELSE d1
    IN  Notify(d2)

\* set_open without the cx.notify() call.
set_open_silent(d, open) ==
    IF open # d.is_open
    THEN LET d1 == [d EXCEPT !.is_open = open]
             e  == Get(d1.panel_entries, d1.active_panel_index)
         IN  IF e # <<>> THEN PanelSetActive(d1, e[1], open) ELSE d1
    ELSE d

\* Dock::set_open
set_open(d, open) ==
    IF open # d.is_open
    THEN LET d1 == [d EXCEPT !.is_open = open]
             e  == Get(d1.panel_entries, d1.active_panel_index)
             d2 == IF e # <<>> THEN PanelSetActive(d1, e[1], open) ELSE d1
         IN  Notify(d2)
    ELSE d

\* activate_panel that activates the new entry before deactivating the old.
activate_panel_new_first(d, panel_ix) ==
    IF panel_ix # d.active_panel_index
    THEN LET e1 == Get(d.panel_entries, panel_ix)
             d1 == IF e1 # <<>> THEN PanelSetActive(d, e1[1], TRUE) ELSE d
             e0 == Get(d1.panel_entries, d1.active_panel_index)
             d2 == IF e0 # <<>> THEN PanelSetActive(d1, e0[1], FALSE) ELSE d1
             d3 == [d2 EXCEPT !.active_panel_index = panel_ix]
         IN  Notify(d3)
    ELSE d

\* activate_panel without the "if panel_ix != self.active_panel_index" guard.
activate_panel_unguarded(d, panel_ix) ==
    LET e0 == Get(d.panel_entries, d.active_panel_index)
        d1 == IF e0 # <<>> THEN PanelSetActive(d, e0[1], FALSE) ELSE d
        d2 == [d1 EXCEPT !.active_panel_index = panel_ix]
        e1 == Get(d2.panel_entries, d2.active_panel_index)
        d3 == IF e1 # <<>> THEN PanelSetActive(d2, e1[1], TRUE) ELSE d2
    IN  Notify(d3)

\* Dock::activate_panel
activate_panel(d, panel_ix) ==
    IF panel_ix # d.active_panel_index
    THEN LET e0 == Get(d.panel_entries, d.active_panel_index)
             d1 == IF e0 # <<>> THEN PanelSetActive(d, e0[1], FALSE) ELSE d
             d2 == [d1 EXCEPT !.active_panel_index = panel_ix]
             e1 == Get(d2.panel_entries, d2.active_panel_index)
             d3 == IF e1 # <<>> THEN PanelSetActive(d2, e1[1], TRUE) ELSE d2
         IN  Notify(d3)
    ELSE d

\* visible_panel without the "if self.is_open" test of visible_entry.
visible_panel_ignoring_open(d) == Get(d.panel_entries, d.active_panel_index)

\* Dock::visible_entry / Dock::visible_panel (as an Option)
visible_panel(d) ==
    IF d.is_open THEN Get(d.panel_entries, d.active_panel_index) ELSE <<>>

\* Dock::active_panel (as an Option)
active_panel(d) == Get(d.panel_entries, d.active_panel_index)

\* focus_handle with a checked lookup: no handle instead of a panic.
focus_handle_checked(d) ==
    [panicked |-> FALSE, handle |-> Get(d.panel_entries, d.active_panel_index)]

\* FocusableView::focus_handle for Dock: panel_entries[active_panel_index] is
\* an unchecked index, which panics when it is out of bounds; otherwise the
\* result is the focus handle of that entry's panel (named by the panel).
focus_handle(d) ==
    IF d.active_panel_index < Len(d.panel_entries)
    THEN [panicked |-> FALSE, handle |-> <<d.panel_entries[d.active_panel_index + 1]>>]
    ELSE [panicked |-> TRUE, handle |-> <<>>]

\* Dock::zoomed_panel (as an Option)
zoomed_panel(d) ==
    LET entry == visible_panel(d) IN
    IF entry = <<>> THEN <<>>
    ELSE IF d.zoomed[entry[1]] THEN <<entry[1]>> ELSE <<>>

\* add_panel that puts the new entry at the front of the registry.
add_panel_front(d, p) ==
    Notify([d EXCEPT !.panel_entries = <<p>> \o @])

\* add_panel that pushes one entry per subscription (two entries).
add_panel_twice(d, p) ==
    Notify([d EXCEPT !.panel_entries = Append(Append(@, p), p)])

\* add_panel that skips a panel that is already in the registry.
add_panel_dedup(d, p) ==
    IF \E i \in 1..Len(d.panel_entries) : d.panel_entries[i] = p
    THEN d
    ELSE Notify([d EXCEPT !.panel_entries = Append(@, p)])

\* Dock::add_panel: pushes the entry (with its two subscriptions) and notifies.
add_panel(d, p) ==
    Notify([d EXCEPT !.panel_entries = Append(@, p)])

\* remove_panel that closes the dock but keeps the index when the active
\* entry is removed.
remove_panel_no_reset(d, p) ==
    LET pos == Position(d.panel_entries, p) IN
    IF pos # <<>>
    THEN LET panel_ix == pos[1]
             d1 == IF panel_ix = d.active_panel_index
                   THEN set_open(d, FALSE)
                   ELSE IF panel_ix < d.active_panel_index
                        THEN [d EXCEPT !.active_panel_index = @ - 1]
                        ELSE d
             d2 == [d1 EXCEPT !.panel_entries = VecRemove(@, panel_ix)]
         IN  Notify(d2)
    ELSE d

\* remove_panel that resets the index but leaves the dock open when the
\* active entry is removed (the entry now at index 0 is promoted).
remove_panel_no_close(d, p) ==
    LET pos == Position(d.panel_entries, p) IN
    IF pos # <<>>
    THEN LET panel_ix == pos[1]
             d1 == IF panel_ix = d.active_panel_index
                   THEN [d EXCEPT !.active_panel_index = 0]
                   ELSE IF panel_ix < d.active_panel_index
                        THEN [d EXCEPT !.active_panel_index = @ - 1]
                        ELSE d
             d2 == [d1 EXCEPT !.panel_entries = VecRemove(@, panel_ix)]
         IN  Notify(d2)
    ELSE d

\* remove_panel without the "else if panel_ix < self.active_panel_index" arm.
remove_panel_no_shift(d, p) ==
    LET pos == Position(d.panel_entries, p) IN
    IF pos # <<>>
    THEN LET panel_ix == pos[1]
             d1 == IF panel_ix = d.active_panel_index
                   THEN set_open([d EXCEPT !.active_panel_index = 0], FALSE)
                   ELSE d
             d2 == [d1 EXCEPT !.panel_entries = VecRemove(@, panel_ix)]
         IN  Notify(d2)
    ELSE d

\* Dock::panel_index_for_persistent_name (as an Option)
panel_index_for_persistent_name(d, ui_name) ==
    IF \E i \in 1..Len(d.panel_entries) : PersistentName(d.panel_entries[i]) = ui_name
    THEN <<(CHOOSE i \in 1..Len(d.panel_entries) :
                /\ PersistentName(d.panel_entries[i]) = ui_name
                /\ \A j \in 1..(i - 1) :
                       PersistentName(d.panel_entries[j]) # ui_name) - 1>>
    ELSE <<>>

\* Dock::panels_len
panels_len(d) == Len(d.panel_entries)

\* remove_panel that closes the dock before it resets the index, when the
\* active entry is removed.
remove_panel_close_first(d, p) ==
    LET pos == Position(d.panel_entries, p) IN
    IF pos # <<>>
    THEN LET panel_ix == pos[1]
             d1 == IF panel_ix = d.active_panel_index
                   THEN [set_open(d, FALSE) EXCEPT !.active_panel_index = 0]
                   ELSE IF panel_ix < d.active_panel_index
                        THEN [d EXCEPT !.active_panel_index = @ - 1]
                        ELSE d
             d2 == [d1 EXCEPT !.panel_entries = VecRemove(@, panel_ix)]
         IN  Notify(d2)
    ELSE d

\* remove_panel that notifies whether or not the panel was found.
remove_panel_notify_always(d, p) ==
    LET pos == Position(d.panel_entries, p) IN
    IF pos # <<>>
    THEN LET panel_ix == pos[1]
             d1 == IF panel_ix = d.active_panel_index
                   THEN set_open([d EXCEPT !.active_panel_index = 0], FALSE)
                   ELSE IF panel_ix < d.active_panel_index
                        THEN [d EXCEPT !.active_panel_index = @ - 1]
                        ELSE d
             d2 == [d1 EXCEPT !.panel_entries = VecRemove(@, panel_ix)]
         IN  Notify(d2)
    ELSE Notify(d)

\* Dock::remove_panel
remove_panel(d, p) ==
    LET pos == Position(d.panel_entries, p) IN
    IF pos # <<>>
    THEN LET panel_ix == pos[1]
             d1 == IF panel_ix = d.active_panel_index
                   THEN set_open([d EXCEPT !.active_panel_index = 0], FALSE)
                   ELSE IF panel_ix < d.active_panel_index
                        THEN [d EXCEPT !.active_panel_index = @ - 1]
                        ELSE d
             d2 == [d1 EXCEPT !.panel_entries = VecRemove(@, panel_ix)]
         IN  Notify(d2)
    ELSE d

\* DockPosition
DockPositions == {"Left", "Bottom", "Right"}

\* Dock::toggle_action, for a dock at the given position.
toggle_action(position) ==
    CASE position = "Left" -> "ToggleLeftDock"
      [] position = "Bottom" -> "ToggleBottomDock"
      [] position = "Right" -> "ToggleRightDock"

\* Panel::icon: TestPanel has none, the other panel type has one.
PanelIcon(p) == IF PanelType(p) = "TestPanel" THEN <<>> ELSE <<"Icon">>

\* Panel::toggle_action
PanelToggleAction(p) == "Toggle" \o PanelType(p)

\* The button render builds for entry i with an active state that ignores
\* is_open.
render_button_ignoring_open(d, position, i) ==
    LET p == d.panel_entries[i + 1] IN
    IF i = d.active_panel_index
    THEN [entry |-> i, name |-> PersistentName(p), state |-> "Active",
          action |-> toggle_action(position)]
    ELSE [entry |-> i, name |-> PersistentName(p), state |-> "Default",
          action |-> PanelToggleAction(p)]

\* The button PanelButtons::render builds for entry i (an entry with an icon).
render_button(d, position, i) ==
    LET p == d.panel_entries[i + 1] IN
    IF i = d.active_panel_index /\ d.is_open
    THEN [entry |-> i, name |-> PersistentName(p), state |-> "Active",
          action |-> toggle_action(position)]
    ELSE [entry |-> i, name |-> PersistentName(p), state |-> "Default",
          action |-> PanelToggleAction(p)]

\* render's filter_map over the entries from 0-based position k on.
RECURSIVE render_from(_, _, _)
render_from(d, position, k) ==
    IF k >= Len(d.panel_entries) THEN <<>>
    ELSE (IF PanelIcon(d.panel_entries[k + 1]) = <<>>
          THEN <<>>
          ELSE <<render_button(d, position, k)>>)
             \o render_from(d, position, k + 1)

\* PanelButtons::render for a dock at the given position: the buttons, in
\* order.
render(d, position) == render_from(d, position, 0)

\* zoom_out that only zooms out the visible panel.
zoom_out_visible(d) ==
    LET entry == zoomed_panel(d) IN
    IF entry # <<>> THEN PanelSetZoomed(d, entry[1], FALSE) ELSE d

\* zoom_out's loop over the entries from 0-based position k on.
RECURSIVE zoom_out_from(_, _)
zoom_out_from(d, k) ==
    IF k >= Len(d.panel_entries) THEN d
    ELSE LET p == d.panel_entries[k + 1]
         IN  zoom_out_from(IF d.zoomed[p] THEN PanelSetZoomed(d, p, FALSE) ELSE d,
                           k + 1)

\* Dock::zoom_out
zoom_out(d) == zoom_out_from(d, 0)

\* resize_active_panel that resizes the first entry, not the active one.
resize_first_panel(d, s) ==
    LET e == Get(d.panel_entries, 0) IN
    IF e # <<>> THEN Notify(PanelSetSize(d, e[1], s)) ELSE d

\* Dock::resize_active_panel
resize_active_panel(d, s) ==
    LET e == Get(d.panel_entries, d.active_panel_index) IN
    IF e # <<>> THEN Notify(PanelSetSize(d, e[1], s)) ELSE d

\* The handler with a Close arm that closes the dock whichever panel emits.
on_panel_event_close_any(d, p, ev) ==
    CASE ev = "ChangePosition" -> d
      [] ev = "ZoomIn" -> d
      [] ev = "ZoomOut" -> d
      [] ev = "Activate" ->
            LET pos == Position(d.panel_entries, p) IN
            IF pos # <<>>
            THEN activate_panel(set_open(d, TRUE), pos[1])
            ELSE d
      [] ev = "Close" -> set_open(d, FALSE)
      [] ev = "Focus" -> [d EXCEPT !.panicked = TRUE]

\* The handler with an Activate arm that switches the active index before it
\* opens the dock.
on_panel_event_activate_first(d, p, ev) ==
    CASE ev = "ChangePosition" -> d
      [] ev = "ZoomIn" -> d
      [] ev = "ZoomOut" -> d
      [] ev = "Activate" ->
            LET pos == Position(d.panel_entries, p) IN
            IF pos # <<>>
            THEN set_open(activate_panel(d, pos[1]), TRUE)
            ELSE d
      [] ev = "Close" ->
            IF visible_panel(d) # <<>> /\ visible_panel(d)[1] = p
            THEN set_open(d, FALSE)
            ELSE d
      [] ev = "Focus" -> [d EXCEPT !.panicked = TRUE]

\* The handler with an empty Focus arm.
on_panel_event_focus_ignored(d, p, ev) ==
    CASE ev = "ChangePosition" -> d
      [] ev = "ZoomIn" -> d
      [] ev = "ZoomOut" -> d
      [] ev = "Activate" ->
            LET pos == Position(d.panel_entries, p) IN
            IF pos # <<>>
            THEN activate_panel(set_open(d, TRUE), pos[1])
            ELSE d
      [] ev = "Close" ->
            IF visible_panel(d) # <<>> /\ visible_panel(d)[1] = p
            THEN set_open(d, FALSE)
            ELSE d
      [] ev = "Focus" -> d

\* The handler with a ZoomOut arm that zooms out the dock's panels.
on_panel_event_zoom_out(d, p, ev) ==
    CASE ev = "ChangePosition" -> d
      [] ev = "ZoomIn" -> d
      [] ev = "ZoomOut" -> zoom_out(d)
      [] ev = "Activate" ->
            LET pos == Position(d.panel_entries, p) IN
            IF pos # <<>>
            THEN activate_panel(set_open(d, TRUE), pos[1])
            ELSE d
      [] ev = "Close" ->
            IF visible_panel(d) # <<>> /\ visible_panel(d)[1] = p
            THEN set_open(d, FALSE)
            ELSE d
      [] ev = "Focus" -> [d EXCEPT !.panicked = TRUE]

\* The closure add_panel passes to cx.subscribe: one run of the dock's
\* handler for an event emitted by panel p.
on_panel_event(d, p, ev) ==
    CASE ev = "ChangePosition" -> d
      [] ev = "ZoomIn" -> d
      [] ev = "ZoomOut" -> d
      [] ev = "Activate" ->
            LET pos == Position(d.panel_entries, p) IN
            IF pos # <<>>
            THEN activate_panel(set_open(d, TRUE), pos[1])
            ELSE d
      [] ev = "Close" ->
            IF visible_panel(d) # <<>> /\ visible_panel(d)[1] = p
            THEN set_open(d, FALSE)
            ELSE d
      [] ev = "Focus" -> [d EXCEPT !.panicked = TRUE]

\* The number of live subscriptions to panel p: each entry owns the
\* subscription its add_panel call made, and drops it when it is removed.
Subscriptions(d, p) ==
    Cardinality({i \in 1..Len(d.panel_entries) : d.panel_entries[i] = p})

\* cx.emit(ev) by panel p: the handler runs once per live subscription, and a
\* panic stops the delivery.
RECURSIVE deliver(_, _, _, _)
deliver(d, p, ev, n) ==
    IF n = 0 \/ d.panicked THEN d
    ELSE deliver(on_panel_event(d, p, ev), p, ev, n - 1)

emit(d, p, ev) == deliver(d, p, ev, Subscriptions(d, p))

\* ------------------------------------------------------------- menu handle
\* One MenuHandle element: the MenuState the window keeps for its element id
\* between frames and the mouse-down listener its paint registers.  The Rc
\* in MenuState.open is shared by the state and the listener's closure, so
\* the flag is one boolean.

MousePhases == {"Capture", "Bubble"}
MouseButtons == {"Left", "Right", "Middle"}

\* The menu state and the listener as a record.
MenuCur == [element_state |-> element_state, mouse_listener |-> mouse_listener]

\* layout that starts from a new closed state in every frame.
layout_fresh(m) ==
    [m EXCEPT !.element_state = <<[open |-> FALSE, menu |-> FALSE]>>]

\* MenuHandle::layout: takes the flag of the state it is given, or a new
\* false one, and builds the menu when the flag is set.
layout(m) ==
    LET open == IF m.element_state # <<>> THEN m.element_state[1].open ELSE FALSE
    IN  [m EXCEPT !.element_state = <<[open |-> open, menu |-> open]>>]

\* MenuHandle::paint: paints the menu and returns, or registers the listener.
paint(m) ==
    IF m.element_state[1].menu THEN m ELSE [m EXCEPT !.mouse_listener = TRUE]

\* The closure paint passes to cx.on_mouse_event, run for a MouseDownEvent.
on_mouse_event(m, phase, button, inside) ==
    IF phase = "Bubble" /\ button = "Right" /\ inside
    THEN [m EXCEPT !.element_state[1].open = TRUE]
    ELSE m

\* ----------------------------------------------------------------- actions
\* Every action is a whole call of one operation; after a panic (the unwinding
\* of a todo!()) nothing runs any more.

\* An operation took the current state to the record r.
Commit(r) ==
    \E x \in {r} :
        /\ panel_entries' = x.panel_entries
        /\ is_open' = x.is_open
        /\ active_panel_index' = x.active_panel_index
        /\ active' = x.active
        /\ zoomed' = x.zoomed
        /\ size' = x.size
        /\ panicked' = x.panicked
        /\ add_calls' = add_calls
        /\ inserted' = inserted
        /\ UNCHANGED menu_vars

\* Dock::new, and TestPanel::new for every panel.
Init ==
    /\ panel_entries = <<>>
    /\ is_open = FALSE
    /\ active_panel_index = 0
    /\ active = [p \in Panels |-> FALSE]
    /\ zoomed = [p \in Panels |-> FALSE]
    /\ size = [p \in Panels |-> DefaultSize]
    /\ panicked = FALSE
    /\ add_calls = 0
    /\ inserted = <<>>
    /\ element_state = <<>>
    /\ mouse_listener = FALSE
    /\ mid_frame = FALSE

AddPanel ==
    \E p \in Panels :
        /\ ~panicked
        /\ Len(panel_entries) < MaxEntries
        /\ Commit(add_panel(Cur, p))

RemovePanel ==
    \E p \in Panels :
        /\ ~panicked
        /\ Commit(remove_panel(Cur, p))

SetOpen ==
    \E b \in BOOLEAN :
        /\ ~panicked
        /\ Commit(set_open(Cur, b))

\* The indices that are in range for the registry.
InRange == 0..(Len(panel_entries) - 1)

\* activate_panel with an index that is in range at the time of the call.
ActivatePanel ==
    \E i \in InRange :
        /\ ~panicked
        /\ Commit(activate_panel(Cur, i))

ZoomOut ==
    /\ ~panicked
    /\ Commit(zoom_out(Cur))

ResizeActivePanel ==
    \E s \in SizeArgs :
        /\ ~panicked
        /\ Commit(resize_active_panel(Cur, s))

\* A panel emits a PanelEvent.
PanelEmit ==
    \E p \in Panels, ev \in PanelEvents :
        /\ ~panicked
        /\ Commit(emit(Cur, p, ev))

\* The panel's owner zooms it in or out directly (Panel::set_zoomed).
SetZoomed ==
    \E p \in Panels, b \in BOOLEAN :
        /\ ~panicked
        /\ Commit(PanelSetZoomed(Cur, p, b))

Next ==
    \/ AddPanel
    \/ RemovePanel
    \/ SetOpen
    \/ ActivatePanel
    \/ ZoomOut
    \/ ResizeActivePanel
    \/ PanelEmit
    \/ SetZoomed

Spec == Init /\ [][Next]_vars

\* The operations that read and write the registry and the activation state
\* only; none of them reads a panel's zoom flag or size.
NextRegistry ==
    \/ AddPanel
    \/ RemovePanel
    \/ SetOpen
    \/ ActivatePanel
    \/ PanelEmit

\* The dock with panels that are never zoomed or resized.
SpecRegistry == Init /\ [][NextRegistry]_vars

NextZoom ==
    \/ AddPanel
    \/ RemovePanel
    \/ SetOpen
    \/ ActivatePanel
    \/ PanelEmit
    \/ ZoomOut
    \/ SetZoomed

\* The dock with panels that are never resized (no operation reads a size).
SpecZoom == Init /\ [][NextZoom]_vars

NextResize ==
    \/ AddPanel
    \/ RemovePanel
    \/ SetOpen
    \/ ActivatePanel
    \/ PanelEmit
    \/ ResizeActivePanel

\* The dock with panels that are never zoomed.
SpecResize == Init /\ [][NextResize]_vars

\* add_panel on a dock that has seen add_panel calls only, counting the calls.
AddPanelCounted ==
    \E p \in Panels :
        /\ add_calls < MaxAddCalls
        /\ \E x \in {add_panel(Cur, p)} :
              /\ panel_entries' = x.panel_entries
              /\ is_open' = x.is_open
              /\ active_panel_index' = x.active_panel_index
              /\ active' = x.active
              /\ zoomed' = x.zoomed
              /\ size' = x.size
              /\ panicked' = x.panicked
        /\ add_calls' = add_calls + 1
        /\ inserted' = inserted
        /\ UNCHANGED menu_vars

\* A fresh dock and a sequence of add_panel calls.
SpecAddOnly == Init /\ [][AddPanelCounted]_vars

\* The indices that are out of range for the registry (index >= panels_len()).
OutOfRange == Len(panel_entries)..MaxEntries

\* activate_panel with an index that is out of range at the time of the call:
\* the code has no bounds check, so the call runs like any other.
ActivatePanelOutOfRange ==
    \E i \in OutOfRange :
        /\ ~panicked
        /\ Commit(activate_panel(Cur, i))

NextUnchecked ==
    \/ AddPanel
    \/ RemovePanel
    \/ SetOpen
    \/ ActivatePanel
    \/ ActivatePanelOutOfRange

\* The dock driven by a caller that does not keep activate_panel's
\* precondition.
SpecUnchecked == Init /\ [][NextUnchecked]_vars

\* The framework asks the dock for its focus handle.
FocusHandle ==
    /\ ~panicked
    /\ Commit([Cur EXCEPT !.panicked = focus_handle(Cur).panicked])

NextFocus ==
    \/ AddPanel
    \/ RemovePanel
    \/ SetOpen
    \/ ActivatePanel
    \/ FocusHandle

\* The dock whose focus handle is asked for in any state; no panel emits an
\* event, so a panic is one of focus_handle.
SpecFocus == Init /\ [][NextFocus]_vars

\* A frame lays the handle out, with the state of the frame before; the
\* window drops the listeners of the frame before when it draws a new one.
MenuLayout ==
    /\ ~panicked
    /\ ~mid_frame
    /\ element_state' = layout(MenuCur).element_state
    /\ mouse_listener' = FALSE
    /\ mid_frame' = TRUE
    /\ UNCHANGED dock_vars

\* The frame paints the handle.
MenuPaint ==
    /\ ~panicked
    /\ mid_frame
    /\ element_state' = paint(MenuCur).element_state
    /\ mouse_listener' = paint(MenuCur).mouse_listener
    /\ mid_frame' = FALSE
    /\ UNCHANGED dock_vars

\* Between frames the window dispatches a mouse-down event to the listener.
MouseDown ==
    \E phase \in MousePhases, button \in MouseButtons, inside \in BOOLEAN :
        /\ ~panicked
        /\ ~mid_frame
        /\ mouse_listener
        /\ element_state' = on_mouse_event(MenuCur, phase, button, inside).element_state
        /\ UNCHANGED <<mouse_listener, mid_frame>>
        /\ UNCHANGED dock_vars

NextMenu ==
    \/ AddPanel
    \/ RemovePanel
    \/ SetOpen
    \/ ActivatePanel
    \/ MenuLayout
    \/ MenuPaint
    \/ MouseDown

\* The dock and the menu handle of one of its panel buttons.
SpecMenu == Init /\ [][NextMenu]_vars

\* The 0-based index at which new holds an entry that old does not (the last
\* such index when entries of the same panel make several fit).
PushedAt(old, new) ==
    CHOOSE j \in 0..Len(old) :
        /\ VecRemove(new, j) = old
        /\ \A k \in (j + 1)..Len(old) : VecRemove(new, k) # old

\* The 0-based index of the entry of old that new lacks (the first such index
\* when entries of the same panel make several fit).
RemovedAt(old, new) ==
    CHOOSE i \in 0..(Len(old) - 1) :
        /\ VecRemove(old, i) = new
        /\ \A k \in 0..(i - 1) : VecRemove(old, k) # new

\* add_panel, numbering the call and recording the number with the entry it
\* pushed.
AddPanelStamped ==
    \E p \in Panels :
        /\ ~panicked
        /\ Len(panel_entries) < MaxEntries
        /\ add_calls < MaxAddCalls
        /\ \E x \in {add_panel(Cur, p)} :
              /\ panel_entries' = x.panel_entries
              /\ is_open' = x.is_open
              /\ active_panel_index' = x.active_panel_index
              /\ active' = x.active
              /\ zoomed' = x.zoomed
              /\ size' = x.size
              /\ panicked' = x.panicked
              /\ \E j \in {PushedAt(panel_entries, x.panel_entries)} :
                    inserted' = SubSeq(inserted, 1, j) \o <<add_calls + 1>>
                                    \o SubSeq(inserted, j + 1, Len(inserted))
        /\ add_calls' = add_calls + 1
        /\ UNCHANGED menu_vars

\* remove_panel, dropping the number of the entry it removed.
RemovePanelStamped ==
    \E p \in Panels :
        /\ ~panicked
        /\ \E x \in {remove_panel(Cur, p)} :
              /\ panel_entries' = x.panel_entries
              /\ is_open' = x.is_open
              /\ active_panel_index' = x.active_panel_index
              /\ active' = x.active
              /\ zoomed' = x.zoomed
              /\ size' = x.size
              /\ panicked' = x.panicked
              /\ inserted' = IF Len(x.panel_entries) = Len(panel_entries)
                             THEN inserted
                             ELSE VecRemove(inserted,
                                            RemovedAt(panel_entries, x.panel_entries))
        /\ add_calls' = add_calls
        /\ UNCHANGED menu_vars

NextOrder ==
    \/ AddPanelStamped
    \/ RemovePanelStamped
    \/ SetOpen
    \/ ActivatePanel

\* The dock with every entry carrying the number of the call that pushed it.
SpecOrder == Init /\ [][NextOrder]_vars

TypeOK ==
    /\ panel_entries \in Seq(Panels)
    /\ Len(panel_entries) <= MaxEntries
    /\ is_open \in BOOLEAN
    /\ active_panel_index \in Nat
    /\ active \in [Panels -> BOOLEAN]
    /\ zoomed \in [Panels -> BOOLEAN]
    /\ size \in [Panels -> {DefaultSize, SomeSize}]
    /\ panicked \in BOOLEAN
    /\ add_calls = 0
    /\ inserted = <<>>
    /\ element_state = <<>>
    /\ mouse_listener = FALSE
    /\ mid_frame = FALSE

\* ------------------------------------------------------------------ claims
\* The panels that have at least one entry in the registry.
Registered == {panel_entries[i] : i \in 1..Len(panel_entries)}

\* The registered panels whose active flag is set.
ActiveRegistered == {p \in Registered : active[p]}

\* The log entries of a record that are set_active calls.
IsSetActive(c) == c.fn = "set_active"
SetActiveCalls(r) == SelectSeq(r.log, IsSetActive)

\* The log entries of a record that are change notifications.
IsNotify(c) == c.fn = "notify"
Notifications(r) == Len(SelectSeq(r.log, IsNotify))

\* C1 (as claimed): whenever the dock is open and the registry is non-empty,
\* exactly one registered panel reports active, and it is the entry at
\* active_panel_index, the one active_panel() returns.
C1_ExactlyOneActive ==
    (is_open /\ Len(panel_entries) > 0) =>
        /\ active_panel(Cur) # <<>>
        /\ ActiveRegistered = {active_panel(Cur)[1]}

\* C2 (as claimed): while the dock is closed no registered panel has
\* set_active(true) as the last activation notification it received.
C2_ClosedNoneActive ==
    ~is_open => ActiveRegistered = {}

\* C3: whenever the registry is non-empty, active_panel_index is a valid index
\* of it (activate_panel being called with in-range indices only).
C3_ActiveIndexInRange ==
    Len(panel_entries) > 0 => active_panel_index < Len(panel_entries)

\* C3: the last entry is active and an earlier entry of another panel can be
\* removed, so that the index has to follow its entry down.
C3_Witness ==
    /\ Len(panel_entries) = MaxEntries
    /\ active_panel_index = Len(panel_entries) - 1
    /\ \E p \in Panels :
          /\ Position(panel_entries, p) # <<>>
          /\ Position(panel_entries, p)[1] < active_panel_index
          /\ remove_panel(Cur, p).active_panel_index = active_panel_index - 1

\* The registry without the entry at 0-based index i.
WithoutIndex(entries, i) ==
    SubSeq(entries, 1, i) \o SubSeq(entries, i + 2, Len(entries))

\* The registry without any entry of panel p, the others in their order.
IsNotPanel(p, q) == q # p
WithoutPanel(entries, p) ==
    LET Keep(q) == IsNotPanel(p, q) IN SelectSeq(entries, Keep)

\* C4 (as claimed): removing the panel at active_panel_index yields index 0
\* and a closed dock, the panel is no longer in the registry and all other
\* entries keep their relative order.
C4_RemoveActiveAsClaimed ==
    \A p \in Panels :
        active_panel(Cur) = <<p>> =>
            LET r == remove_panel(Cur, p) IN
            /\ r.active_panel_index = 0
            /\ ~r.is_open
            /\ r.panel_entries = WithoutPanel(panel_entries, p)

\* C4 (amended): removing a panel whose first entry is the one at
\* active_panel_index yields index 0 and a closed dock; exactly that entry
\* leaves the registry and all other entries keep their relative order.
C4_RemoveActive ==
    \A p \in Panels :
        Position(panel_entries, p) = <<active_panel_index>> =>
            LET r == remove_panel(Cur, p) IN
            /\ r.active_panel_index = 0
            /\ ~r.is_open
            /\ r.panel_entries = WithoutIndex(panel_entries, active_panel_index)

\* C4: an open dock whose active panel is the last of a full registry, and
\* removing it closes the dock and resets the index.
C4_Witness ==
    /\ is_open
    /\ Len(panel_entries) = MaxEntries
    /\ active_panel_index = Len(panel_entries) - 1
    /\ \E p \in Panels :
          /\ Position(panel_entries, p) = <<active_panel_index>>
          /\ ~remove_panel(Cur, p).is_open
          /\ remove_panel(Cur, p).active_panel_index = 0

\* C5: removing a registered panel that is not the active one leaves is_open
\* alone, lowers the index by one when the removed entry was below it and
\* leaves it alone when above, and the entry at active_panel_index is the same
\* panel before and after.
C5_RemoveInactive ==
    \A p \in Panels :
        LET pos == Position(panel_entries, p)
            r   == remove_panel(Cur, p)
        IN  (pos # <<>> /\ active_panel(Cur) # <<p>>) =>
                /\ r.is_open = is_open
                /\ pos[1] # active_panel_index
                /\ pos[1] < active_panel_index =>
                       r.active_panel_index = active_panel_index - 1
                /\ pos[1] > active_panel_index =>
                       r.active_panel_index = active_panel_index
                /\ active_panel(Cur) # <<>>
                /\ active_panel(r) = active_panel(Cur)

\* C5: an open dock whose active entry has an entry of another panel below
\* it, the removal of which moves the index down.
C5_Witness ==
    /\ is_open
    /\ active_panel_index > 0
    /\ \E p \in Panels :
          /\ active_panel(Cur) # <<p>>
          /\ Position(panel_entries, p) # <<>>
          /\ Position(panel_entries, p)[1] < active_panel_index
          /\ remove_panel(Cur, p).active_panel_index = active_panel_index - 1
          /\ remove_panel(Cur, p).is_open

\* C6 (as claimed): after a registered panel emits Activate the dock is open,
\* active_panel_index is that panel's index in the registry, and the panel's
\* last activation notification is set_active(true).
C6_ActivateEvent ==
    \A p \in Registered :
        LET r == emit(Cur, p, "Activate") IN
        /\ r.is_open
        /\ <<r.active_panel_index>> = Position(panel_entries, p)
        /\ r.active[p]

\* C7: a Close from the visible panel closes the dock, keeps the index and
\* tells exactly that panel set_active(false); a Close from any other
\* registered panel changes neither is_open, the index nor any active flag.
C7_CloseEvent ==
    \A p \in Registered :
        LET r == emit(Cur, p, "Close") IN
        /\ r.active_panel_index = active_panel_index
        /\ r.panel_entries = panel_entries
        /\ IF is_open /\ active_panel(Cur) = <<p>>
           THEN /\ ~r.is_open
                /\ SetActiveCalls(r) = <<CallSetActive(p, FALSE)>>
                /\ r.active = [active EXCEPT ![p] = FALSE]
           ELSE /\ r.is_open = is_open
                /\ r.active = active
                /\ SetActiveCalls(r) = <<>>

\* C7: both cases at once: the visible panel reports active, and another
\* registered panel exists whose Close leaves the dock open.
C7_Witness ==
    /\ is_open
    /\ \E p, q \in Registered :
          /\ p # q
          /\ active_panel(Cur) = <<p>>
          /\ active[p]
          /\ ~emit(Cur, p, "Close").is_open
          /\ ~emit(Cur, p, "Close").active[p]
          /\ emit(Cur, q, "Close").is_open

\* C8: activate_panel(i) with i in range and different from the active index
\* makes, in this order, set_active(false) on the old entry, the index update,
\* set_active(true) on entry i, and one change notification; is_open and the
\* registry are unchanged.
C8_ActivateOrder ==
    \A i \in InRange :
        i # active_panel_index =>
            LET r   == activate_panel(Cur, i)
                old == panel_entries[active_panel_index + 1]
                new == panel_entries[i + 1]
            IN  /\ active_panel_index \in InRange
                /\ r.log = <<CallSetActive(old, FALSE), CallSetActive(new, TRUE),
                             CallNotify>>
                /\ r.active_panel_index = i
                /\ r.active = [[active EXCEPT ![old] = FALSE] EXCEPT ![new] = TRUE]
                /\ r.is_open = is_open
                /\ r.panel_entries = panel_entries

\* C8: an open dock with two different panels, the first one active, so that
\* activating the other deactivates the first.
C8_Witness ==
    /\ is_open
    /\ active_panel_index = 0
    /\ Len(panel_entries) >= 2
    /\ panel_entries[1] # panel_entries[2]
    /\ active[panel_entries[1]]
    /\ ~active[panel_entries[2]]
    /\ activate_panel(Cur, 1).active[panel_entries[2]]
    /\ ~activate_panel(Cur, 1).active[panel_entries[1]]

\* C9: activate_panel with the current active index does nothing: no call on
\* any panel, no notification, no change of the dock.
C9_ActivateSameIndex ==
    LET r == activate_panel(Cur, active_panel_index) IN
    /\ r.log = <<>>
    /\ Snapshot(r) = Snapshot(Cur)

\* C9: the case where a call would be observable: an open dock whose active
\* entry does not report active.
C9_Witness ==
    /\ is_open
    /\ active_panel(Cur) # <<>>
    /\ ~active[active_panel(Cur)[1]]
    /\ activate_panel(Cur, active_panel_index).log = <<>>

\* C10: set_open(b) with b different from is_open sets the flag, makes exactly
\* one set_active(b) on the entry at active_panel_index if there is one (none
\* on an empty registry) and then notifies once; with b equal to is_open it
\* does nothing; a second set_open(b) does nothing; the index never changes.
C10_SetOpen ==
    \A b \in BOOLEAN :
        LET r     == set_open(Cur, b)
            again == set_open([r EXCEPT !.log = <<>>], b)
        IN  /\ r.active_panel_index = active_panel_index
            /\ r.panel_entries = panel_entries
            /\ r.is_open = b
            /\ IF b # is_open
               THEN IF active_panel(Cur) # <<>>
                    THEN /\ r.log = <<CallSetActive(active_panel(Cur)[1], b), CallNotify>>
                         /\ r.active = [active EXCEPT ![active_panel(Cur)[1]] = b]
                    ELSE /\ r.log = <<CallNotify>>
                         /\ r.active = active
               ELSE /\ r.log = <<>>
                    /\ r.active = active
            /\ again.log = <<>>
            /\ Snapshot(again) = Snapshot(r)

\* C10: set_open(true) has flipped the flag of a dock with an empty registry
\* (an empty registry is open only through such a call).
C10_Witness ==
    /\ is_open
    /\ Len(panel_entries) = 0
    /\ set_open(Cur, FALSE).log = <<CallNotify>>

\* The ids of the entries are pairwise distinct.
DistinctIds(entries) ==
    \A i, j \in 1..Len(entries) : entries[i] = entries[j] => i = j

\* C11 (as claimed): in every state reachable through add_panel and
\* remove_panel no panel id appears in more than one entry.
C11_DistinctIdsAsClaimed == DistinctIds(panel_entries)

\* C11 (amended): the ids stay pairwise distinct as long as no add_panel call
\* passes a panel that is in the registry: from a registry with pairwise
\* distinct ids, add_panel of a panel that is not registered and remove_panel
\* of any panel give pairwise distinct ids again, and add_panel of a
\* registered panel gives a second entry with its id.
C11_DistinctIds ==
    DistinctIds(panel_entries) =>
        \A p \in Panels :
            /\ DistinctIds(remove_panel(Cur, p).panel_entries)
            /\ DistinctIds(add_panel(Cur, p).panel_entries) <=> p \notin Registered

\* C11: a registry with distinct ids in which one panel can be added without
\* a duplicate and another one cannot.
C11_Witness ==
    /\ Len(panel_entries) > 0
    /\ DistinctIds(panel_entries)
    /\ \E p, q \in Panels :
          /\ p \notin Registered
          /\ q \in Registered
          /\ DistinctIds(add_panel(Cur, p).panel_entries)
          /\ ~DistinctIds(add_panel(Cur, q).panel_entries)

\* The names a lookup may be asked for: those of the panels, and one that no
\* panel has.
LookupNames == {PersistentName(p) : p \in Panels} \cup {"NoSuchPanel"}

\* C12: after any sequence of add_panel calls on a fresh dock (repeated panels
\* included) panels_len() is the number of calls, the lookup of each added
\* panel's persistent name gives the index of an entry with that name, and
\* the lookup of a name no entry has gives None.
C12_AddOnly ==
    /\ panels_len(Cur) = add_calls
    /\ \A name \in LookupNames :
          LET ix == panel_index_for_persistent_name(Cur, name) IN
          IF \E p \in Registered : PersistentName(p) = name
          THEN /\ ix # <<>>
               /\ ix[1] < Len(panel_entries)
               /\ PersistentName(panel_entries[ix[1] + 1]) = name
          ELSE ix = <<>>

\* C12: the longest sequence of calls, with a panel passed more than once and
\* a name whose first entry is not entry 0.
C12_Witness ==
    /\ add_calls = MaxAddCalls
    /\ ~DistinctIds(panel_entries)
    /\ \E name \in LookupNames :
          /\ panel_index_for_persistent_name(Cur, name) # <<>>
          /\ panel_index_for_persistent_name(Cur, name)[1] > 0

\* C13: activate_panel with an index that is out of range for the registry is
\* reported as a contract violation (a panic) and does not leave
\* active_panel_index an invalid index of a non-empty registry: in every state
\* of a dock whose callers may pass any index, either a violation has been
\* reported or the index is valid for a non-empty registry.
C13_OutOfRangeRejected ==
    \/ panicked
    \/ Len(panel_entries) = 0
    \/ active_panel_index < Len(panel_entries)

\* The results of every dock operation a caller or a panel can start in the
\* current state.
DockOperations ==
    {add_panel(Cur, p) : p \in Panels}
        \cup {remove_panel(Cur, p) : p \in Panels}
        \cup {set_open(Cur, b) : b \in BOOLEAN}
        \cup {activate_panel(Cur, i) : i \in InRange}
        \cup {zoom_out(Cur)}
        \cup {resize_active_panel(Cur, s) : s \in SizeArgs}
        \cup {emit(Cur, x[1], x[2]) : x \in Panels \X PanelEvents}

\* The log entries of a record that are set_size calls.
IsSetSize(c) == c.fn = "set_size"
SetSizeCalls(r) == SelectSeq(r.log, IsSetSize)

\* C14: every dock operation that changes is_open, changes
\* active_panel_index, changes the registry or resizes the active panel emits
\* at least one change notification in the same operation.
C14_NotifyOnChange ==
    \A r \in DockOperations :
        (\/ r.is_open # is_open
         \/ r.active_panel_index # active_panel_index
         \/ r.panel_entries # panel_entries
         \/ SetSizeCalls(r) # <<>>)
            => Notifications(r) >= 1

\* C14: a closed dock in which a panel that is not at active_panel_index
\* emits Activate (is_open and the index change, each with its notification),
\* and in which a resize reaches a panel.
C14_Witness ==
    /\ ~is_open
    /\ \E p \in Registered :
          LET r == emit(Cur, p, "Activate") IN
          /\ r.is_open # is_open
          /\ r.active_panel_index # active_panel_index
          /\ Notifications(r) >= 2
    /\ \E s \in SizeArgs :
          LET r == resize_active_panel(Cur, s) IN
          /\ SetSizeCalls(r) # <<>>
          /\ Notifications(r) = 1

\* The registered panels that report zoomed.
ZoomedRegistered == {p \in Registered : zoomed[p]}

\* C15: zoom_out leaves every registered panel not zoomed, calls
\* set_zoomed(false) on the registered panels that reported zoomed (once each)
\* and on nothing else, and leaves is_open, active_panel_index, the registry,
\* every activation flag and the unregistered panels alone; zoomed_panel() is
\* absent right after it.
C15_ZoomOut ==
    LET r == zoom_out(Cur) IN
    /\ \A p \in Registered : ~r.zoomed[p]
    /\ \A p \in Panels \ Registered : r.zoomed[p] = zoomed[p]
    /\ \A k \in 1..Len(r.log) :
          \E p \in ZoomedRegistered : r.log[k] = CallSetZoomed(p, FALSE)
    /\ Len(r.log) = Cardinality(ZoomedRegistered)
    /\ r.is_open = is_open
    /\ r.active_panel_index = active_panel_index
    /\ r.panel_entries = panel_entries
    /\ r.active = active
    /\ r.size = size
    /\ ~r.panicked
    /\ zoomed_panel(r) = <<>>

\* C15: an open dock with two zoomed registered panels, one of them visible
\* and one of them registered twice.
C15_Witness ==
    /\ Cardinality(ZoomedRegistered) >= 2
    /\ zoomed_panel(Cur) # <<>>
    /\ ~DistinctIds(panel_entries)
    /\ Len(zoom_out(Cur).log) = 2

\* C16: remove_panel of a panel that is not in the registry changes nothing:
\* the registry, is_open, active_panel_index and every panel's flags and size
\* stay as they are, and it makes no set_active call and no notification (no
\* call at all).
C16_RemoveAbsent ==
    \A p \in Panels \ Registered :
        LET r == remove_panel(Cur, p) IN
        /\ r.panel_entries = panel_entries
        /\ r.is_open = is_open
        /\ r.active_panel_index = active_panel_index
        /\ r.active = active
        /\ r.zoomed = zoomed
        /\ r.size = size
        /\ ~r.panicked
        /\ SetActiveCalls(r) = <<>>
        /\ Notifications(r) = 0
        /\ r.log = <<>>

\* C16: an open dock with an active registered panel and a panel that is not
\* registered; removing the registered one does change the dock.
C16_Witness ==
    /\ is_open
    /\ Panels \ Registered # {}
    /\ \E q \in ActiveRegistered :
          /\ remove_panel(Cur, q).panel_entries # panel_entries
          /\ Notifications(remove_panel(Cur, q)) >= 1

\* C17: visible_panel() is present iff the dock is open and there is an entry
\* at active_panel_index, and then it is that entry's panel, the one
\* active_panel() returns; zoomed_panel() is present iff visible_panel() is
\* present and that panel reports zoomed, and then it is the same panel; at
\* most one panel is visible.  (The queries take &self and are operators here:
\* they have a value and no next state.)
C17_Queries ==
    LET v == visible_panel(Cur)
        z == zoomed_panel(Cur)
    IN  /\ v # <<>> <=> (is_open /\ active_panel_index < Len(panel_entries))
        /\ v # <<>> =>
              /\ v = <<panel_entries[active_panel_index + 1]>>
              /\ v = active_panel(Cur)
        /\ z # <<>> <=> (v # <<>> /\ zoomed[v[1]])
        /\ z # <<>> => z = v
        /\ Len(v) <= 1

\* C17: an open dock whose visible panel is zoomed and is not the first
\* entry, while another registered panel is zoomed without being visible.
C17_Witness ==
    /\ is_open
    /\ active_panel_index > 0
    /\ zoomed_panel(Cur) = <<panel_entries[active_panel_index + 1]>>
    /\ \E q \in ZoomedRegistered : <<q>> # visible_panel(Cur)

\* C18: resize_active_panel(size) calls set_size(size) on the panel of the
\* entry at active_panel_index and then notifies once; only that panel's size
\* changes (to the size given, or to the panel's default for None), and
\* is_open, active_panel_index, the registry and the panels' flags stay as
\* they are.  With no entry at active_panel_index it changes nothing and makes
\* no call.
C18_ResizeActive ==
    \A s \in SizeArgs :
        LET r == resize_active_panel(Cur, s) IN
        /\ r.panel_entries = panel_entries
        /\ r.is_open = is_open
        /\ r.active_panel_index = active_panel_index
        /\ r.active = active
        /\ r.zoomed = zoomed
        /\ ~r.panicked
        /\ IF active_panel_index < Len(panel_entries)
           THEN LET p == panel_entries[active_panel_index + 1] IN
                /\ r.log = <<CallSetSize(p, s), CallNotify>>
                /\ r.size[p] = IF s = NoSize THEN DefaultSize ELSE s
                /\ \A q \in Panels \ {p} : r.size[q] = size[q]
           ELSE /\ r.log = <<>>
                /\ r.size = size

\* C18: the active entry is not the first one, its panel is not the first
\* entry's panel, the two panels have different sizes, and a resize changes
\* the active panel's size.
C18_Witness ==
    /\ 0 < active_panel_index
    /\ active_panel_index < Len(panel_entries)
    /\ panel_entries[1] # panel_entries[active_panel_index + 1]
    /\ size[panel_entries[1]] # size[panel_entries[active_panel_index + 1]]
    /\ \E s \in SizeArgs : resize_active_panel(Cur, s).size # size

\* The 0-based indices of the entries whose panel has an icon.
IconEntries == {i \in 0..(Len(panel_entries) - 1) : PanelIcon(panel_entries[i + 1]) # <<>>}

\* C19: the button strip has one button for each entry whose icon is present
\* and no other, in entry order; a button is in the active state iff its
\* entry is the one at active_panel_index and the dock is open, so at most
\* one is; the active button carries the dock's toggle action for its
\* position and every other button its own panel's toggle action.
C19_PanelButtons ==
    \A position \in DockPositions :
        LET buttons == render(Cur, position) IN
        /\ {buttons[k].entry : k \in 1..Len(buttons)} = IconEntries
        /\ Len(buttons) = Cardinality(IconEntries)
        /\ \A k \in 1..(Len(buttons) - 1) : buttons[k].entry < buttons[k + 1].entry
        /\ \A k \in 1..Len(buttons) :
              LET b == buttons[k] IN
              /\ b.state = "Active" <=> (b.entry = active_panel_index /\ is_open)
              /\ b.state = "Active" => b.action = toggle_action(position)
              /\ b.state # "Active" =>
                    b.action = PanelToggleAction(panel_entries[b.entry + 1])
        /\ Cardinality({k \in 1..Len(buttons) : buttons[k].state = "Active"}) <= 1

\* C19: an open dock whose strip has an active and an inactive button, after
\* an entry without an icon.
C19_Witness ==
    LET buttons == render(Cur, "Left") IN
    /\ is_open
    /\ Len(buttons) >= 2
    /\ Len(buttons) < Len(panel_entries)
    /\ \E k \in 1..Len(buttons) :
          /\ buttons[k].state = "Active"
          /\ buttons[k].entry # k - 1
          /\ buttons[k].action = "ToggleLeftDock"
    /\ \E k \in 1..Len(buttons) :
          /\ buttons[k].state = "Default"
          /\ buttons[k].action = "ToggleOtherPanel"

\* The events whose arms in the dock's handler are empty.
ReservedEvents == {"ChangePosition", "ZoomIn", "ZoomOut"}

\* C20: when a registered panel emits ChangePosition, ZoomIn or ZoomOut the
\* dock's handler completes and changes nothing: the registry, is_open,
\* active_panel_index and every panel's activation and zoom flags stay as
\* they are, and no set_active or set_zoomed call is made (no call at all).
C20_ReservedEvents ==
    \A p \in Registered, ev \in ReservedEvents :
        LET r == emit(Cur, p, ev) IN
        /\ ~r.panicked
        /\ r.panel_entries = panel_entries
        /\ r.is_open = is_open
        /\ r.active_panel_index = active_panel_index
        /\ r.active = active
        /\ r.zoomed = zoomed
        /\ r.size = size
        /\ r.log = <<>>

\* C20: an open dock whose visible panel is zoomed and registered twice (two
\* subscriptions run the handler), and whose Close event does reach the dock.
C20_Witness ==
    /\ zoomed_panel(Cur) # <<>>
    /\ Subscriptions(Cur, zoomed_panel(Cur)[1]) >= 2
    /\ emit(Cur, zoomed_panel(Cur)[1], "Close").is_open # is_open

\* C21: add_panel puts the new entry at the end of the registry and leaves
\* the existing entries, is_open, active_panel_index and every panel's flags
\* and size as they are, making no set_active call (its only call is the
\* notification); and in every state reached by add_panel and remove_panel
\* calls the surviving entries stand in the order of their insertion.
C21_AddAppends ==
    /\ \A p \in Panels :
          LET r == add_panel(Cur, p) IN
          /\ Len(r.panel_entries) = Len(panel_entries) + 1
          /\ \A k \in 1..Len(panel_entries) : r.panel_entries[k] = panel_entries[k]
          /\ r.panel_entries[Len(panel_entries) + 1] = p
          /\ r.is_open = is_open
          /\ r.active_panel_index = active_panel_index
          /\ r.active = active
          /\ r.zoomed = zoomed
          /\ r.size = size
          /\ SetActiveCalls(r) = <<>>
          /\ r.log = <<CallNotify>>
    /\ Len(inserted) = Len(panel_entries)
    /\ \A k \in 1..(Len(inserted) - 1) : inserted[k] < inserted[k + 1]

\* C21: an open dock whose active entry is not the first one, after a
\* removal of an entry that was not the last one pushed (the registry holds
\* two entries of one panel and the numbers of its entries have a gap).
C21_Witness ==
    /\ is_open
    /\ active_panel_index > 0
    /\ ActiveRegistered # {}
    /\ ~DistinctIds(panel_entries)
    /\ \E k \in 1..(Len(inserted) - 1) : inserted[k + 1] > inserted[k] + 1

\* C22: when remove_panel removes the active entry of an open dock, the one
\* set_active call it makes is set_active(false) on the panel of the entry at
\* index 0 of the registry as it was before the removal (the index is reset
\* before set_open(false) runs); a removed panel whose entry was at an index
\* greater than 0 gets no set_active call and still reports active afterwards.
C22_RemoveActiveOrder ==
    is_open =>
        \A p \in Registered :
            Position(panel_entries, p) = <<active_panel_index>> =>
                LET r == remove_panel(Cur, p) IN
                /\ r.log = <<CallSetActive(panel_entries[1], FALSE), CallNotify, CallNotify>>
                /\ ~r.active[panel_entries[1]]
                /\ active_panel_index > 0 =>
                      /\ panel_entries[1] # p
                      /\ active[p]
                      /\ r.active[p]
                      /\ \A k \in 1..Len(r.log) : r.log[k].panel # p

\* C22: an open dock whose active entry is not the first one and is the only
\* entry of its panel; removing it leaves the panel unregistered and active.
C22_Witness ==
    /\ is_open
    /\ active_panel_index > 0
    /\ \E p \in Registered :
          /\ Position(panel_entries, p) = <<active_panel_index>>
          /\ Subscriptions(Cur, p) = 1
          /\ remove_panel(Cur, p).active[p]
          /\ Position(remove_panel(Cur, p).panel_entries, p) = <<>>

\* The calls one run of the Activate handler makes on a closed dock when the
\* emitting panel pj is not at the active index, and pi is the panel there.
ActivateCalls(pi, pj) ==
    <<CallSetActive(pi, TRUE), CallNotify,
      CallSetActive(pi, FALSE), CallSetActive(pj, TRUE), CallNotify>>

\* C23 (as claimed): when a registered panel at index j emits Activate on a
\* closed dock whose active index is i # j, the panel at i gets
\* set_active(true), then set_active(false), and then the panel at j gets
\* set_active(true); at the end the panel at i reports inactive and the panel
\* at j active.
C23_ActivateOpensFirstAsClaimed ==
    ~is_open =>
        \A p \in Registered :
            Position(panel_entries, p) # <<active_panel_index>> =>
                LET r  == on_panel_event(Cur, p, "Activate")
                    pi == panel_entries[active_panel_index + 1]
                IN  /\ r.log = ActivateCalls(pi, p)
                    /\ ~r.active[pi]
                    /\ r.active[p]

\* C23: the same order of calls, the dock ends open with the emitting panel's
\* first entry active and that panel active; the panel at i ends inactive
\* unless the entry at i is a further entry of the emitting panel (then the
\* three set_active calls all go to that one panel and it ends active); no
\* other panel's flag changes.
C23_ActivateOpensFirst ==
    ~is_open =>
        \A p \in Registered :
            Position(panel_entries, p) # <<active_panel_index>> =>
                LET r  == on_panel_event(Cur, p, "Activate")
                    pi == panel_entries[active_panel_index + 1]
                IN  /\ r.log = ActivateCalls(pi, p)
                    /\ r.is_open
                    /\ r.active_panel_index = Position(panel_entries, p)[1]
                    /\ r.active[p]
                    /\ pi # p => ~r.active[pi]
                    /\ \A q \in Panels \ {pi, p} : r.active[q] = active[q]

\* C23: a closed dock with two panels, the emitting one not at the active
\* index and the one at the active index not active; the handler leaves the
\* dock open on the emitting panel.
C23_Witness ==
    /\ ~is_open
    /\ active_panel_index < Len(panel_entries)
    /\ ~active[panel_entries[active_panel_index + 1]]
    /\ \E p \in Registered :
          /\ p # panel_entries[active_panel_index + 1]
          /\ Position(panel_entries, p)[1] > active_panel_index
          /\ on_panel_event(Cur, p, "Activate").is_open
          /\ on_panel_event(Cur, p, "Activate").active[p]

\* The results of every dock operation that can start in the current state,
\* set_open(true) left out.
OperationsButOpen ==
    {add_panel(Cur, p) : p \in Panels}
        \cup {remove_panel(Cur, p) : p \in Panels}
        \cup {set_open(Cur, FALSE)}
        \cup {activate_panel(Cur, i) : i \in InRange}
        \cup {zoom_out(Cur)}
        \cup {resize_active_panel(Cur, s) : s \in SizeArgs}
        \cup {emit(Cur, x[1], x[2]) : x \in Panels \X PanelEvents}

\* C24: with in-range activate_panel calls only, a remove_panel call that
\* empties the registry leaves the dock closed with active_panel_index 0, and
\* an open dock with an empty registry comes only from set_open(true) on an
\* empty registry: no other operation ends in such a state unless it started
\* in one, and set_open(true) ends in one only from an empty registry.
C24_EmptyRegistryClosed ==
    /\ \A p \in Registered :
          LET r == remove_panel(Cur, p) IN
          r.panel_entries = <<>> => (~r.is_open /\ r.active_panel_index = 0)
    /\ \A r \in OperationsButOpen :
          (r.panel_entries = <<>> /\ r.is_open) => (panel_entries = <<>> /\ is_open)
    /\ LET r == set_open(Cur, TRUE) IN
          (r.panel_entries = <<>> /\ r.is_open) => panel_entries = <<>>

\* C24: an open dock whose only entry is active; removing its panel empties
\* the registry and closes the dock.
C24_Witness ==
    /\ is_open
    /\ Len(panel_entries) = 1
    /\ active[panel_entries[1]]
    /\ remove_panel(Cur, panel_entries[1]).panel_entries = <<>>
    /\ ~remove_panel(Cur, panel_entries[1]).is_open

\* C25: when a registered panel emits Focus the dock's handler aborts (the
\* todo!() panics) before it has called or changed anything, and for every
\* other PanelEvent the handler runs to completion.
C25_FocusUnhandled ==
    \A p \in Registered :
        /\ on_panel_event(Cur, p, "Focus").panicked
        /\ emit(Cur, p, "Focus").panicked
        /\ emit(Cur, p, "Focus").log = <<>>
        /\ Snapshot(emit(Cur, p, "Focus")) = Snapshot(Cur)
        /\ \A ev \in PanelEvents \ {"Focus"} :
              /\ ~on_panel_event(Cur, p, ev).panicked
              /\ ~emit(Cur, p, ev).panicked

\* C25: the state after a panel of an open two-entry dock has emitted Focus.
C25_Witness ==
    /\ panicked
    /\ is_open
    /\ Len(panel_entries) >= 2

IsOpen(m) == m.element_state # <<>> /\ m.element_state[1].open

\* C27: the popup handle's open flag starts false, is turned on only by a
\* right-button mouse-down inside the bounds in the bubble phase, and is
\* turned off by nothing (not by layout, paint or any mouse-down); layout
\* builds the popup iff the flag is set; after a popup has been painted no
\* mouse-down listener is registered; so a handle that is open is laid out
\* with its popup and painted without a listener in the next frame.
C27_PopupStaysOpen ==
    LET m == MenuCur
        l == layout(m)
    IN  /\ element_state = <<>> => ~IsOpen(l)
        /\ IsOpen(l) <=> IsOpen(m)
        /\ l.element_state[1].menu <=> IsOpen(l)
        /\ element_state # <<>> =>
              /\ element_state[1].menu => element_state[1].open
              /\ IsOpen(paint(m)) <=> IsOpen(m)
              /\ \A phase \in MousePhases, button \in MouseButtons, inside \in BOOLEAN :
                    LET r == on_mouse_event(m, phase, button, inside) IN
                    /\ IsOpen(m) => IsOpen(r)
                    /\ (IsOpen(r) /\ ~IsOpen(m)) =>
                          (phase = "Bubble" /\ button = "Right" /\ inside)
              /\ (~mid_frame /\ element_state[1].menu) => ~mouse_listener
        /\ IsOpen(m) =>
              LET p == paint([l EXCEPT !.mouse_listener = FALSE]) IN
              /\ p.element_state[1].menu
              /\ IsOpen(p)
              /\ ~p.mouse_listener

\* C27: the handle after a frame that painted its popup: open, popup built,
\* no listener.
C27_Witness ==
    /\ ~mid_frame
    /\ element_state # <<>>
    /\ element_state[1].open
    /\ element_state[1].menu
    /\ ~mouse_listener

====
